---- MODULE Spec2Model ----
(***************************************************************************)
(* State machine of the Yew chat component                                 *)
(* src/YewChat/src/components/chat.rs: Chat::create, Chat::update          *)
(* (Msg::HandleMsg, Msg::SubmitMessage) and the parts of Chat::view that   *)
(* bind the input element and classify log entries.                        *)
(*                                                                         *)
(* A Rust String is modelled as a "text": Raw(s) is a string whose         *)
(* characters s are not JSON, Doc(j) is the string that is the JSON        *)
(* serialisation of the JSON value j.  serde_json::from_str is the JSON    *)
(* syntax step (a Raw text fails) followed by serde's typed                *)
(* deserialisation of the derived structs, which is modelled field by      *)
(* field; serde_json::to_string builds the JSON object of the struct.      *)
(***************************************************************************)
EXTENDS Integers, Sequences, FiniteSets, TLC

VARIABLES
    phase,       \* "Unmounted" | "Running" | "Panicked" (an unwrap() panicked)
    username,    \* user.username of the User context read by create
    users,       \* Chat.users    : Vec<UserProfile>
    messages,    \* Chat.messages : Vec<MessageData>
    chat_input,  \* Chat.chat_input: None = NodeRef not bound, Some(t) = input value t
    tx,          \* every try_send call on wss.tx, in order: [text, ok]
    last         \* the event handled last: [ev, s, ret]

vars == <<phase, username, users, messages, chat_input, tx, last>>

\* ------------------------------------------------------------- bounds
MaxLog == 2      \* inbound chat entries delivered in one run
MaxSends == 2    \* try_send calls in one run (the register frame included)

\* ------------------------------------------------ Option, Result, text
None == [none |-> TRUE]
Some(x) == [some |-> x]
IsSome(o) == "some" \in DOMAIN o

Ok(x) == [ok |-> x]
Err(e) == [err |-> e]
IsOk(r) == "ok" \in DOMAIN r

Raw(s) == [raw |-> s]
Doc(j) == [doc |-> j]
IsDoc(t) == "doc" \in DOMAIN t

\* JSON values
JNull == [jnull |-> TRUE]
JNum(n) == [jnum |-> n]
JStr(t) == [jstr |-> t]
JArr(a) == [jarr |-> a]
JObj(f) == [jobj |-> f]
IsJStr(j) == "jstr" \in DOMAIN j
IsJArr(j) == "jarr" \in DOMAIN j
IsJObj(j) == "jobj" \in DOMAIN j

\* Display of a String in format!("{}", u): the characters of the text.
Display(t) == t.raw

\* ------------------------------------------------------ wire schema
\* enum MsgTypes with #[serde(rename_all = "lowercase")]: variant -> tag
MsgTypes == [Users |-> "users", Register |-> "register", Message |-> "message"]

\* Deserialize for MsgTypes: a JSON string naming one of the variants
DeMsgTypes(j) ==
    IF ~IsJStr(j) THEN Err("invalid type")
    ELSE IF IsDoc(j.jstr) THEN Err("unknown variant")
    ELSE IF \E v \in DOMAIN MsgTypes : MsgTypes[v] = j.jstr.raw
         THEN Ok(CHOOSE v \in DOMAIN MsgTypes : MsgTypes[v] = j.jstr.raw)
         ELSE Err("unknown variant")

\* Deserialize for Option<String> at field k: absent or null is None
DeOptString(f, k) ==
    IF k \notin DOMAIN f THEN Ok(None)
    ELSE IF f[k] = JNull THEN Ok(None)
    ELSE IF IsJStr(f[k]) THEN Ok(Some(f[k].jstr))
    ELSE Err("invalid type")

\* Deserialize for Option<Vec<String>> at field k
DeOptVecString(f, k) ==
    IF k \notin DOMAIN f THEN Ok(None)
    ELSE IF f[k] = JNull THEN Ok(None)
    ELSE IF IsJArr(f[k]) /\ \A i \in 1..Len(f[k].jarr) : IsJStr(f[k].jarr[i])
         THEN Ok(Some([i \in 1..Len(f[k].jarr) |-> f[k].jarr[i].jstr]))
    ELSE Err("invalid type")

\* Deserialize for a required String at field k
DeString(f, k) ==
    IF k \notin DOMAIN f THEN Err("missing field")
    ELSE IF IsJStr(f[k]) THEN Ok(f[k].jstr)
    ELSE Err("invalid type")

\* serde_json::from_str::<WebSocketMessage>: camelCase field names, fields
\* that the struct does not name are ignored
FromStrWebSocketMessage(s) ==
    IF ~IsDoc(s) THEN Err("syntax")
    ELSE IF ~IsJObj(s.doc) THEN Err("invalid type")
    ELSE LET f == s.doc.jobj IN
         IF "messageType" \notin DOMAIN f THEN Err("missing field")
         ELSE LET mt == DeMsgTypes(f["messageType"])
                  da == DeOptVecString(f, "dataArray")
                  d  == DeOptString(f, "data")
              IN IF ~IsOk(mt) THEN mt
                 ELSE IF ~IsOk(da) THEN da
                 ELSE IF ~IsOk(d) THEN d
                 ELSE Ok([message_type |-> mt.ok, data_array |-> da.ok, data |-> d.ok])

\* (mutant) MessageData is read with its two fields exchanged
FromStrMessageDataSwapped(s) ==
    IF ~IsDoc(s) THEN Err("syntax")
    ELSE IF ~IsJObj(s.doc) THEN Err("invalid type")
    ELSE LET f == s.doc.jobj
             fr == DeString(f, "from")
             m  == DeString(f, "message")
         IN IF ~IsOk(fr) THEN fr
            ELSE IF ~IsOk(m) THEN m
            ELSE Ok([from |-> m.ok, message |-> fr.ok])

\* serde_json::from_str::<MessageData>: both fields required
FromStrMessageData(s) ==
    IF ~IsDoc(s) THEN Err("syntax")
    ELSE IF ~IsJObj(s.doc) THEN Err("invalid type")
    ELSE LET f == s.doc.jobj
             fr == DeString(f, "from")
             m  == DeString(f, "message")
         IN IF ~IsOk(fr) THEN fr
            ELSE IF ~IsOk(m) THEN m
            ELSE Ok([from |-> fr.ok, message |-> m.ok])

\* Serialize for Option<String> / Option<Vec<String>>: None is written as null
SerOptString(o) == IF IsSome(o) THEN JStr(o.some) ELSE JNull
SerOptVecString(o) ==
    IF IsSome(o) THEN JArr([i \in 1..Len(o.some) |-> JStr(o.some[i])]) ELSE JNull

\* serde_json::to_string(&WebSocketMessage): every field is written
ToStringWebSocketMessage(m) ==
    Doc(JObj([messageType |-> JStr(Raw(MsgTypes[m.message_type])),
              dataArray   |-> SerOptVecString(m.data_array),
              data        |-> SerOptString(m.data)]))

\* the wire form of a ChatEntry: { from: string, message: string }
EncodeChatEntry(e) == Doc(JObj([from |-> JStr(e.from), message |-> JStr(e.message)]))

\* ------------------------------------------------------- environment
\* user.username values the User context may hold
LocalNames == {Raw("Alice"), Raw("Bob")}

\* values the user may give the input element
InputTexts == {Raw(""), Raw("hello")}

JUsers(names) == JArr([i \in 1..Len(names) |-> JStr(Raw(names[i]))])
JEntry(from, message) == JObj([from |-> JStr(Raw(from)), message |-> JStr(Raw(message))])

\* texts the event bus may deliver to Msg::HandleMsg
MalformedFrames ==
    { Raw("not json"),
      Doc(JObj([messageType |-> JStr(Raw("ping")), data |-> JStr(Raw("x"))])),
      Doc(JObj([data |-> JStr(Raw("x"))])),
      Doc(JObj([messageType |-> JStr(Raw("users")), dataArray |-> JArr(<<JNum(7)>>)])) }

UsersFrames ==
    { Doc(JObj([messageType |-> JStr(Raw("users")), dataArray |-> JUsers(<<"Alice", "Bob">>)])),
      Doc(JObj([messageType |-> JStr(Raw("users")), dataArray |-> JUsers(<<"Bob", "Bob">>),
                data |-> JStr(Raw("x")), room |-> JNum(7)])),
      Doc(JObj([messageType |-> JStr(Raw("users")), dataArray |-> JUsers(<<"a b">>)])),
      Doc(JObj([messageType |-> JStr(Raw("users")), dataArray |-> JNull])),
      Doc(JObj([messageType |-> JStr(Raw("users"))])) }

RegisterFrames ==
    { Doc(JObj([messageType |-> JStr(Raw("register")), data |-> JStr(Raw("Alice"))])),
      Doc(JObj([messageType |-> JStr(Raw("register")), data |-> JNull])),
      Doc(JObj([messageType |-> JStr(Raw("register"))])) }

MessageFrames ==
    { Doc(JObj([messageType |-> JStr(Raw("message")), data |-> JStr(Doc(JEntry("Bob", "hi")))])),
      Doc(JObj([messageType |-> JStr(Raw("message")), data |-> JStr(Doc(JEntry("You", "hello")))])),
      Doc(JObj([messageType |-> JStr(Raw("message")),
                data |-> JStr(Doc(JObj([from |-> JStr(Raw("Bob")), message |-> JStr(Raw("hi")),
                                        time |-> JNum(7)])))])),
      Doc(JObj([messageType |-> JStr(Raw("message")), data |-> JStr(Raw("hello"))])),
      Doc(JObj([messageType |-> JStr(Raw("message")),
                data |-> JStr(Doc(JObj([from |-> JStr(Raw("Bob"))])))])),
      Doc(JObj([messageType |-> JStr(Raw("message"))])) }

InFrames == MalformedFrames \cup UsersFrames \cup RegisterFrames \cup MessageFrames

\* ------------------------------------------------------------- create
\* (mutant) create builds a chat message instead of a Register message
RegisterMessageAsChat(name) ==
    [message_type |-> "Message", data |-> Some(name), data_array |-> None]

\* the Register message built by create
RegisterMessage(name) ==
    [message_type |-> "Register", data |-> Some(name), data_array |-> None]

\* wss.tx.clone().try_send(text): the call and its Result, as the channel saw it
TrySend(log, text, ok) == Append(log, [text |-> text, ok |-> ok])

\* (mutant) create calls expect() on the Result of try_send
CreatePhaseExpect(ok) == IF ok THEN "Running" ELSE "Panicked"

\* create after try_send: Ok is logged, Err is dropped; Self is built either way
CreatePhase(ok) == "Running"

\* ------------------------------------------------------------- update
\* (mutant) the roster avatar uses another identicon style
AvatarUrlOtherStyle(u) ==
    Raw("https://avatars.dicebear.com/api/adventurer/" \o Display(u) \o ".svg")

\* the avatar of a UserProfile built by the Users arm
AvatarUrl(u) ==
    Raw("https://avatars.dicebear.com/api/adventurer-neutral/" \o Display(u) \o ".svg")

\* (mutant) the Users arm extends self.users instead of replacing it
UsersArmAccumulate(us, msg) ==
    LET users_from_message == IF IsSome(msg.data_array) THEN msg.data_array.some ELSE <<>>
    IN us \o [i \in 1..Len(users_from_message) |->
                 [name |-> users_from_message[i], avatar |-> AvatarUrl(users_from_message[i])]]

\* (mutant) the Users arm keeps the old list when the frame has no dataArray
UsersArmKeepOnNone(us, msg) ==
    IF IsSome(msg.data_array)
    THEN [i \in 1..Len(msg.data_array.some) |->
             [name |-> msg.data_array.some[i], avatar |-> AvatarUrl(msg.data_array.some[i])]]
    ELSE us

\* a sequence without its repeated elements
Dedup(s) ==
    LET keep == {i \in 1..Len(s) : \A j \in 1..(i - 1) : s[j] # s[i]}
    IN [k \in 1..Cardinality(keep) |->
           s[CHOOSE i \in keep : Cardinality({j \in keep : j < i}) = k - 1]]

\* (mutant) the Users arm drops repeated names
UsersArmDedup(us, msg) ==
    LET users_from_message ==
            Dedup(IF IsSome(msg.data_array) THEN msg.data_array.some ELSE <<>>)
    IN [i \in 1..Len(users_from_message) |->
           [name |-> users_from_message[i], avatar |-> AvatarUrl(users_from_message[i])]]

\* MsgTypes::Users arm: the new value of self.users
UsersArm(us, msg) ==
    LET users_from_message == IF IsSome(msg.data_array) THEN msg.data_array.some ELSE <<>>
    IN [i \in 1..Len(users_from_message) |->
           [name |-> users_from_message[i], avatar |-> AvatarUrl(users_from_message[i])]]

\* (mutant) the Message arm inserts the entry at the front of self.messages
MessageArmPrepend(ms, msg) ==
    IF ~IsSome(msg.data) THEN [messages |-> ms, ret |-> "panic"]
    ELSE LET message_data == FromStrMessageData(msg.data.some)
         IN IF IsOk(message_data)
            THEN [messages |-> <<message_data.ok>> \o ms, ret |-> "true"]
            ELSE [messages |-> ms, ret |-> "panic"]

\* (mutant) the Message arm drops an entry whose text the client has itself sent
MessageArmSkipOwn(ms, msg) ==
    IF ~IsSome(msg.data) THEN [messages |-> ms, ret |-> "panic"]
    ELSE LET message_data == FromStrMessageData(msg.data.some)
         IN IF ~IsOk(message_data) THEN [messages |-> ms, ret |-> "panic"]
            ELSE IF \E i \in 1..Len(tx) :
                       tx[i].text.doc.jobj.data = JStr(message_data.ok.message)
                 THEN [messages |-> ms, ret |-> "true"]
                 ELSE [messages |-> Append(ms, message_data.ok), ret |-> "true"]

\* MsgTypes::Message arm: msg.data.unwrap(), from_str(..).unwrap(), push
MessageArm(ms, msg) ==
    IF ~IsSome(msg.data) THEN [messages |-> ms, ret |-> "panic"]
    ELSE LET message_data == FromStrMessageData(msg.data.some)
         IN IF IsOk(message_data)
            THEN [messages |-> Append(ms, message_data.ok), ret |-> "true"]
            ELSE [messages |-> ms, ret |-> "panic"]

\* (mutant) the `_` arm asks for a re-render
OtherArmRerender(us, ms, msg) == [users |-> us, messages |-> ms, ret |-> "true"]

\* (mutant) the `_` arm unwraps msg.data
OtherArmUnwrap(us, ms, msg) ==
    [users |-> us, messages |-> ms, ret |-> IF IsSome(msg.data) THEN "false" ELSE "panic"]

\* the `_` arm (MsgTypes::Register): nothing is read, update returns false
OtherArm(us, ms, msg) == [users |-> us, messages |-> ms, ret |-> "false"]

\* (mutant) the Users arm also resets self.messages
HandleMsgOutcomeUsersClearLog(us, ms, s) ==
    LET msg == FromStrWebSocketMessage(s)
    IN IF ~IsOk(msg) THEN [users |-> us, messages |-> ms, ret |-> "panic"]
       ELSE CASE msg.ok.message_type = "Users" ->
                     [users |-> UsersArm(us, msg.ok), messages |-> <<>>, ret |-> "true"]
              [] msg.ok.message_type = "Message" ->
                     [users |-> us, messages |-> MessageArm(ms, msg.ok).messages,
                      ret |-> MessageArm(ms, msg.ok).ret]
              [] OTHER -> OtherArm(us, ms, msg.ok)

\* Msg::HandleMsg(s): the fields after the handler and what update returns
\* ("panic": an unwrap() panicked and update did not return)
HandleMsgOutcome(us, ms, s) ==
    LET msg == FromStrWebSocketMessage(s)
    IN IF ~IsOk(msg) THEN [users |-> us, messages |-> ms, ret |-> "panic"]
       ELSE CASE msg.ok.message_type = "Users" ->
                     [users |-> UsersArm(us, msg.ok), messages |-> ms, ret |-> "true"]
              [] msg.ok.message_type = "Message" ->
                     [users |-> us, messages |-> MessageArm(ms, msg.ok).messages,
                      ret |-> MessageArm(ms, msg.ok).ret]
              [] OTHER -> OtherArm(us, ms, msg.ok)

\* (mutant) SubmitMessage wraps the input value in a {from, message} entry
SubmitMessageWrapped(value) ==
    [message_type |-> "Message",
     data |-> Some(Doc(JObj([from |-> JStr(Raw("You")), message |-> JStr(value)]))),
     data_array |-> None]

\* the Message message built by Msg::SubmitMessage from input.value()
SubmitMessageMessage(value) ==
    [message_type |-> "Message", data |-> Some(value), data_array |-> None]

\* (mutant) SubmitMessage unwraps the Result of try_send
SubmitPhaseUnwrap(ok) == IF ok THEN "Running" ELSE "Panicked"

\* Msg::SubmitMessage after try_send: Err is logged, the handler goes on
SubmitPhase(ok) == "Running"

\* --------------------------------------------------------------- view
\* (mutant) view compares the sender with the local user's name
IsCurrentUserByName(m) == m.from = username

\* Chat::view: let is_current_user = m.from == "You"
IsCurrentUser(m) == m.from = Raw("You")

\* Chat::view: the avatar derived from a sender that is not in self.users
EntryAvatarUrl(from) ==
    Raw("https://avatars.dicebear.com/api/adventurer-neutral/" \o Display(from) \o ".svg")

\* Chat::view: avatar_url of a log entry: the first roster entry of that name,
\* else the derived one
MessageAvatarUrl(us, m) ==
    IF \E i \in 1..Len(us) : us[i].name = m.from
    THEN us[CHOOSE i \in 1..Len(us) :
                /\ us[i].name = m.from
                /\ \A j \in 1..(i - 1) : us[j].name # m.from].avatar
    ELSE EntryAvatarUrl(m.from)

\* ------------------------------------------------------ state machine
Init ==
    /\ phase = "Unmounted"
    /\ username \in LocalNames
    /\ users = <<>>
    /\ messages = <<>>
    /\ chat_input = None
    /\ tx = <<>>
    /\ last = [ev |-> "none", s |-> None, ret |-> "none"]

\* Chat::create
Create ==
    /\ phase = "Unmounted"
    /\ \E ok \in BOOLEAN :
          /\ tx' = TrySend(tx, ToStringWebSocketMessage(RegisterMessage(username)), ok)
          /\ phase' = CreatePhase(ok)
    /\ users' = <<>>
    /\ messages' = <<>>
    /\ chat_input' = None
    /\ last' = [ev |-> "create", s |-> None, ret |-> "none"]
    /\ UNCHANGED username

\* the first Chat::view: the input element is bound to chat_input, value ""
Render ==
    /\ phase = "Running"
    /\ chat_input = None
    /\ chat_input' = Some(Raw(""))
    /\ last' = [ev |-> "render", s |-> None, ret |-> "none"]
    /\ UNCHANGED <<phase, username, users, messages, tx>>

\* the user edits the input element
TypeInput(t) ==
    /\ phase = "Running"
    /\ IsSome(chat_input)
    /\ chat_input' = Some(t)
    /\ last' = [ev |-> "input", s |-> Some(t), ret |-> "none"]
    /\ UNCHANGED <<phase, username, users, messages, tx>>

\* Chat::update, Msg::HandleMsg(s)
HandleMsg(s) ==
    /\ phase = "Running"
    /\ LET o == HandleMsgOutcome(users, messages, s)
       IN /\ Len(o.messages) <= MaxLog
          /\ users' = o.users
          /\ messages' = o.messages
          /\ phase' = IF o.ret = "panic" THEN "Panicked" ELSE "Running"
          /\ last' = [ev |-> "HandleMsg", s |-> Some(s), ret |-> o.ret]
    /\ UNCHANGED <<username, chat_input, tx>>

\* Chat::update, Msg::SubmitMessage
SubmitMessage ==
    /\ phase = "Running"
    /\ Len(tx) < MaxSends
    /\ IF IsSome(chat_input)
       THEN /\ \E ok \in BOOLEAN :
                  /\ tx' = TrySend(tx, ToStringWebSocketMessage(
                                           SubmitMessageMessage(chat_input.some)), ok)
                  /\ phase' = SubmitPhase(ok)
            /\ chat_input' = Some(Raw(""))
       ELSE UNCHANGED <<tx, phase, chat_input>>
    /\ last' = [ev |-> "SubmitMessage", s |-> chat_input, ret |-> "false"]
    /\ UNCHANGED <<username, users, messages>>

Next ==
    \/ Create
    \/ Render
    \/ \E t \in InputTexts : TypeInput(t)
    \/ \E s \in InFrames : HandleMsg(s)
    \/ SubmitMessage

Spec == Init /\ [][Next]_vars

\* ------------------------------------------------------------ claims
\* what a handled frame is, read from the event record of the step
TopDecode(s) == FromStrWebSocketMessage(s)
IsFrameOf(s, type) == IsOk(TopDecode(s)) /\ TopDecode(s).ok.message_type = type
FrameNames(s) ==
    IF IsSome(TopDecode(s).ok.data_array) THEN TopDecode(s).ok.data_array.some ELSE <<>>
DecodesToEntry(s) ==
    /\ IsFrameOf(s, "Message")
    /\ IsSome(TopDecode(s).ok.data)
    /\ IsOk(FromStrMessageData(TopDecode(s).ok.data.some))
EntryOf(s) == FromStrMessageData(TopDecode(s).ok.data.some).ok
NestedFails(s) == IsFrameOf(s, "Message") /\ ~DecodesToEntry(s)

\* the outbound text's JSON fields
FrameTag(text) == text.doc.jobj.messageType.jstr.raw
FrameData(text) == text.doc.jobj.data
Accepted(log) == SelectSeq(log, LAMBDA e : e.ok)
IsPrefix(a, b) == Len(a) <= Len(b) /\ SubSeq(b, 1, Len(a)) = a

ApplyRoster(names) ==
    [i \in 1..Len(names) |-> [name |-> names[i], avatar |-> AvatarUrl(names[i])]]

\* C1: the participant list starts empty, a handled valid 'users' frame sets
\* it to applyRoster of that frame's name list alone, and no other step
\* changes it.
C1_Step ==
    IF last'.ev = "HandleMsg" /\ IsFrameOf(last'.s.some, "Users")
    THEN users' = ApplyRoster(FrameNames(last'.s.some))
    ELSE users' = users
C1_RosterFullReplace == (users = <<>>) /\ [][C1_Step]_vars
C1_Witness ==
    /\ last.ev = "HandleMsg" /\ IsFrameOf(last.s.some, "Users")
    /\ FrameNames(last.s.some) = <<Raw("Bob"), Raw("Bob")>>
    /\ users = ApplyRoster(<<Raw("Bob"), Raw("Bob")>>)
    /\ Len(messages) = MaxLog

\* C2: a frame whose top-level decode fails is discarded: participant list,
\* message log and channel unchanged, and no panic.
C2_Step ==
    (last'.ev = "HandleMsg" /\ ~IsOk(TopDecode(last'.s.some)))
        => (users' = users /\ messages' = messages /\ tx' = tx /\ phase' # "Panicked")
C2_MalformedDiscarded == [][C2_Step]_vars

\* C3: SubmitMessage with the empty string as input calls no send and
\* appends nothing to the log.
C3_Step ==
    (last'.ev = "SubmitMessage" /\ last'.s = Some(Raw("")))
        => (tx' = tx /\ messages' = messages)
C3_EmptySubmitNoOp == [][C3_Step]_vars

\* C4: SubmitMessage with non-empty input t calls send exactly once, with a
\* 'message' frame whose data is t itself, and leaves log and roster alone.
C4_Step ==
    (last'.ev = "SubmitMessage" /\ IsSome(last'.s) /\ last'.s.some # Raw(""))
        => /\ Len(tx') = Len(tx) + 1 /\ IsPrefix(tx, tx')
           /\ FrameTag(tx'[Len(tx')].text) = "message"
           /\ FrameData(tx'[Len(tx')].text) = JStr(last'.s.some)
           /\ TopDecode(tx'[Len(tx')].text) =
                  Ok([message_type |-> "Message", data_array |-> None,
                      data |-> Some(last'.s.some)])
           /\ messages' = messages /\ users' = users
C4_SubmitSendsRawText == [][C4_Step]_vars
C4_Witness ==
    /\ last.ev = "SubmitMessage" /\ last.s = Some(Raw("hello"))
    /\ FrameData(tx[Len(tx)].text) = JStr(Raw("hello"))
    /\ tx[Len(tx)].ok
    /\ Len(messages) = 1

\* C5: nothing is sent before construction; the first send is the register
\* frame with data = the local name, and every later send is a 'message'.
C5_RegisterFirstOnly ==
    /\ phase = "Unmounted" => tx = <<>>
    /\ phase # "Unmounted" =>
          /\ Len(tx) >= 1
          /\ FrameTag(tx[1].text) = "register"
          /\ FrameData(tx[1].text) = JStr(username)
          /\ \A i \in 2..Len(tx) : FrameTag(tx[i].text) = "message"
C5_Witness ==
    /\ Len(tx) = MaxSends /\ \A i \in 1..Len(tx) : tx[i].ok
    /\ last.ev = "HandleMsg" /\ IsFrameOf(last.s.some, "Register")

\* C6: a 'message' frame whose nested payload does not decode is discarded:
\* log and participant list unchanged, and no panic.
C6_Step ==
    (last'.ev = "HandleMsg" /\ NestedFails(last'.s.some))
        => (users' = users /\ messages' = messages /\ phase' # "Panicked")
C6_NestedDiscarded == [][C6_Step]_vars

\* C7: the log starts empty, a handled 'message' frame that decodes appends
\* its entry at the end, and no other step changes the log.
C7_Step ==
    IF last'.ev = "HandleMsg" /\ DecodesToEntry(last'.s.some)
    THEN messages' = Append(messages, EntryOf(last'.s.some))
    ELSE messages' = messages
C7_LogAppendOnly == (messages = <<>>) /\ [][C7_Step]_vars
C7_Witness ==
    /\ last.ev = "HandleMsg" /\ DecodesToEntry(last.s.some)
    /\ messages = <<[from |-> Raw("Bob"), message |-> Raw("hi")],
                    [from |-> Raw("You"), message |-> Raw("hello")]>>

\* C8: a handled 'register' frame changes nothing, sends nothing, does not
\* panic and makes update return false, whether data is a string, null or
\* absent.
C8_Step ==
    (last'.ev = "HandleMsg" /\ IsFrameOf(last'.s.some, "Register"))
        => /\ users' = users /\ messages' = messages /\ tx' = tx
           /\ chat_input' = chat_input
           /\ phase' = "Running" /\ last'.ret = "false"
C8_RegisterNoOp == [][C8_Step]_vars
C8_Witness ==
    /\ last.ev = "HandleMsg" /\ IsFrameOf(last.s.some, "Register")
    /\ ~IsSome(TopDecode(last.s.some).ok.data)
    /\ phase = "Running" /\ users # <<>> /\ messages # <<>>

\* C9: a failed send in SubmitMessage is absorbed: the frame is not kept
\* (the input is cleared, the accepted frames are as before), log and roster
\* are unchanged, the session keeps running; and every send is the single
\* send of a create or SubmitMessage event, carrying that event's own input.
C9_Step ==
    /\ (last'.ev = "SubmitMessage" /\ Len(tx') > Len(tx) /\ ~tx'[Len(tx')].ok)
          => /\ users' = users /\ messages' = messages
             /\ phase' = "Running"
             /\ Accepted(tx') = Accepted(tx)
             /\ chat_input' = Some(Raw(""))
    /\ tx' # tx
          => /\ Len(tx') = Len(tx) + 1 /\ IsPrefix(tx, tx')
             /\ last'.ev \in {"create", "SubmitMessage"}
             /\ last'.ev = "SubmitMessage"
                   => FrameData(tx'[Len(tx')].text) = JStr(last'.s.some)
C9_SendFailureAbsorbed == [][C9_Step]_vars
C9_Witness ==
    /\ last.ev = "SubmitMessage" /\ last.s = Some(Raw("hello"))
    /\ Len(tx) = 2 /\ ~tx[2].ok
    /\ phase = "Running"

\* C10: whatever the Result of the register send, create leaves a running
\* session with no participant, no log entry and an unbound input; after a
\* failed register send no later send is a register frame, the session
\* panics on nothing but an inbound frame, and inbound frames and
\* submissions have the effects they have after a successful one (C1, C4,
\* C7, C8 read on the steps that follow the failure).
C10_State ==
    /\ last.ev = "create" =>
          /\ phase = "Running" /\ users = <<>> /\ messages = <<>>
          /\ chat_input = None /\ Len(tx) = 1
    /\ (phase # "Unmounted" /\ ~tx[1].ok) =>
          /\ phase = "Panicked" => last.ev = "HandleMsg"
          /\ \A i \in 2..Len(tx) : FrameTag(tx[i].text) # "register"
C10_Step ==
    (phase = "Running" /\ ~tx[1].ok)
        => /\ C1_Step /\ C4_Step /\ C7_Step /\ C8_Step
           /\ tx'[1] = tx[1]
C10_RegisterFailureNonFatal == []C10_State /\ [][C10_Step]_vars
C10_Witness ==
    /\ Len(tx) = 2 /\ ~tx[1].ok /\ tx[2].ok
    /\ last.ev = "HandleMsg" /\ last.ret = "true"
    /\ users # <<>> /\ messages # <<>>

\* C11: no error is fatal: once the session is constructed, a valid 'users'
\* frame can always be handled (and is then reflected in the roster), however
\* many undecodable frames were handled before.
C11_NoErrorFatal ==
    phase # "Unmounted" =>
        \A s \in UsersFrames : ENABLED HandleMsg(s)

\* C12: a handled 'users' frame without a dataArray (absent or null) empties
\* the participant list, leaves the log unchanged and does not panic.
C12_Step ==
    (/\ last'.ev = "HandleMsg" /\ IsFrameOf(last'.s.some, "Users")
     /\ ~IsSome(TopDecode(last'.s.some).ok.data_array))
        => (users' = <<>> /\ messages' = messages /\ phase' = "Running")
C12_NoListIsEmptyRoster == [][C12_Step]_vars
C12_Witness ==
    /\ last.ev = "HandleMsg" /\ IsFrameOf(last.s.some, "Users")
    /\ "dataArray" \notin DOMAIN last.s.some.doc.jobj
    /\ users = <<>> /\ Len(messages) = 1 /\ phase = "Running"

\* C13: right after a 'users' frame with name list L is handled, the
\* participant list has the length of L and its i-th name is L[i]
\* (repeated names kept, order kept).
C13_RosterOrderMultiplicity ==
    (last.ev = "HandleMsg" /\ IsFrameOf(last.s.some, "Users")) =>
        LET L == IF "dataArray" \in DOMAIN last.s.some.doc.jobj
                    /\ IsJArr(last.s.some.doc.jobj.dataArray)
                 THEN last.s.some.doc.jobj.dataArray.jarr ELSE <<>>
        IN /\ Len(users) = Len(L)
           /\ \A i \in 1..Len(L) : users[i].name = L[i].jstr
C13_Witness ==
    /\ last.ev = "HandleMsg" /\ IsFrameOf(last.s.some, "Users")
    /\ Len(users) = 2 /\ users[1].name = Raw("Bob") /\ users[2].name = Raw("Bob")

\* the text of the frame that to_string writes for a tag and a data string
ExpectedFrame(tag, data) ==
    Doc(JObj([messageType |-> JStr(Raw(tag)), dataArray |-> JNull, data |-> JStr(data)]))

\* C14: every step is one whole event. A HandleMsg step changes roster and
\* log as a function of (roster, log, frame) alone and touches neither the
\* channel nor the input; every other step leaves roster and log alone, and
\* what it sends is a function of the local name (create) or of the
\* submitted input value (SubmitMessage) alone. So roster and log depend
\* only on the order of the inbound frames, and the outbound frames only on
\* the local name and the order of the submissions.
C14_Step ==
    /\ last'.ev = "HandleMsg" =>
          /\ tx' = tx /\ chat_input' = chat_input
          /\ users' = IF IsFrameOf(last'.s.some, "Users")
                      THEN ApplyRoster(FrameNames(last'.s.some)) ELSE users
          /\ messages' = IF DecodesToEntry(last'.s.some)
                         THEN Append(messages, EntryOf(last'.s.some)) ELSE messages
    /\ last'.ev # "HandleMsg" =>
          /\ users' = users /\ messages' = messages
          /\ tx' # tx =>
                \E ok \in BOOLEAN :
                    tx' = Append(tx,
                        [text |-> IF last'.ev = "create"
                                  THEN ExpectedFrame("register", username)
                                  ELSE ExpectedFrame("message", last'.s.some),
                         ok |-> ok])
C14_InterleavingIndependent == [][C14_Step]_vars
C14_Witness ==
    /\ Len(tx) = 2 /\ tx[2].text = ExpectedFrame("message", Raw("hello"))
    /\ last.ev = "HandleMsg" /\ DecodesToEntry(last.s.some)
    /\ messages = <<[from |-> Raw("Bob"), message |-> Raw("hi")],
                    [from |-> Raw("You"), message |-> Raw("hello")]>>
    /\ users # <<>>

\* C15: a log entry is classified self-authored exactly when its sender is
\* "You", whatever the local name and the roster are.
C15_SelfAuthoredIffYou ==
    \A i \in 1..Len(messages) :
        IsCurrentUser(messages[i]) <=> (messages[i].from = Raw("You"))
C15_Witness ==
    /\ username = Raw("Bob")
    /\ Len(messages) = 2
    /\ messages[1].from = Raw("Bob") /\ ~IsCurrentUser(messages[1])
    /\ messages[2].from = Raw("You") /\ IsCurrentUser(messages[2])
    /\ \E i \in 1..Len(users) : users[i].name = Raw("Bob")
    /\ \A i \in 1..Len(tx) : FrameData(tx[i].text) # JStr(Raw("hello"))

\* the senders and bodies at hand in a state
StateSenders ==
    {username} \cup {users[i].name : i \in 1..Len(users)}
               \cup {messages[i].from : i \in 1..Len(messages)}
StateBodies ==
    (IF IsSome(chat_input) THEN {chat_input.some} ELSE {})
        \cup {messages[i].message : i \in 1..Len(messages)}

\* C16: decoding the wire form of a ChatEntry gives the entry back, for
\* every entry made of a sender and a body at hand in a reachable state.
C16_ChatEntryRoundTrip ==
    \A f \in StateSenders : \A b \in StateBodies :
        FromStrMessageData(EncodeChatEntry([from |-> f, message |-> b]))
            = Ok([from |-> f, message |-> b])
C16_Witness ==
    /\ Raw("a b") \in StateSenders /\ Raw("You") \in StateSenders
    /\ Raw("") \in StateBodies /\ Raw("hello") \in StateBodies

\* the characters of the names the frames carry
Chars(s) ==
    CASE s = "Alice" -> <<"A", "l", "i", "c", "e">>
      [] s = "Bob"   -> <<"B", "o", "b">>
      [] s = "a b"   -> <<"a", " ", "b">>
Unreserved == {"A", "B", "a", "b", "c", "e", "i", "l", "o"}
PercentEncode(c) == IF c \in Unreserved THEN c ELSE "%20"
RECURSIVE Concat(_)
Concat(cs) == IF cs = <<>> THEN "" ELSE Head(cs) \o Concat(Tail(cs))
UrlEncode(s) == Concat([i \in 1..Len(Chars(s)) |-> PercentEncode(Chars(s)[i])])

\* C17: every participant's avatar is the identicon base, the URL-encoded
\* name and ".svg".
C17_AvatarUrlEncoded ==
    \A i \in 1..Len(users) :
        users[i].avatar =
            Raw("https://avatars.dicebear.com/api/adventurer-neutral/"
                    \o UrlEncode(users[i].name.raw) \o ".svg")

\* C18: update returns true exactly for a handled 'users' frame and a
\* handled 'message' frame that decodes, false for a 'register' frame and
\* for every SubmitMessage; a step whose update returned false leaves roster
\* and log unchanged.
C18_Step ==
    last'.ev \in {"HandleMsg", "SubmitMessage"} =>
        /\ (last'.ret = "true") <=>
              (/\ last'.ev = "HandleMsg"
               /\ (IsFrameOf(last'.s.some, "Users") \/ DecodesToEntry(last'.s.some)))
        /\ (last'.ev = "SubmitMessage"
               \/ (last'.ev = "HandleMsg" /\ IsFrameOf(last'.s.some, "Register")))
              => last'.ret = "false"
        /\ last'.ret = "false" => (users' = users /\ messages' = messages)
C18_RerenderSignal == [][C18_Step]_vars
C18_Witness ==
    /\ last.ev = "SubmitMessage" /\ last.s = Some(Raw("hello")) /\ last.ret = "false"
    /\ users # <<>> /\ messages # <<>>

\* C19: a handled 'users' frame leaves the log unchanged, a handled
\* 'message' frame leaves the participant list unchanged, and neither sends.
C19_Step ==
    /\ (last'.ev = "HandleMsg" /\ IsFrameOf(last'.s.some, "Users"))
          => (messages' = messages /\ tx' = tx)
    /\ (last'.ev = "HandleMsg" /\ IsFrameOf(last'.s.some, "Message"))
          => (users' = users /\ tx' = tx)
C19_RosterLogIndependent == [][C19_Step]_vars
C19_Witness ==
    /\ last.ev = "HandleMsg" /\ IsFrameOf(last.s.some, "Users")
    /\ Len(users) = 2 /\ Len(messages) = MaxLog /\ Len(tx) = MaxSends

\* C20: every participant's avatar is the derived avatar of its own name,
\* participants of equal names have equal avatars, and the avatar view picks
\* for a log entry that is not self-authored is the avatar derived from its
\* sender, in the roster or not.
C20_AvatarOfName ==
    /\ \A i \in 1..Len(users) : users[i].avatar = EntryAvatarUrl(users[i].name)
    /\ \A i, j \in 1..Len(users) :
          users[i].name = users[j].name => users[i].avatar = users[j].avatar
    /\ \A k \in 1..Len(messages) :
          ~IsCurrentUser(messages[k])
              => MessageAvatarUrl(users, messages[k]) = EntryAvatarUrl(messages[k].from)
C20_Witness ==
    /\ Len(users) = 2 /\ users[1].name = Raw("Bob") /\ users[2].name = Raw("Bob")
    /\ \E k \in 1..Len(messages) :
          /\ messages[k].from = Raw("Bob")
          /\ MessageAvatarUrl(users, messages[k]) = users[1].avatar

====
